---- MODULE Spec2Model ----
\* Model of src/Yanase/modelo1.py: the rolling 12-month correlation
\* (calc_corr_last12) and the analogue model SimpleCorrelation12 (fit, predict).
\*
\* A month (a pandas Period of freq 'M') is the integer year*12 + (month-1);
\* adding 1 to it is Period + 1.  A table (DataFrame) is a record
\* [freq, rows], rows a sequence of [key, val], val the tuple of the row's
\* values, one per column.  Python's None is the empty tuple and a set field
\* holds the one-element tuple of its value.
EXTENDS Integers, Sequences, FiniteSets

\* ---------------------------------------------------------------- bounds
\* Whole years of an input history.
MaxYears == 3
\* Largest posicao a model is constructed with.
MaxPosicao == 1
\* Largest num_meses handed to predict.
MaxNumMeses == 1

\* ------------------------------------------------------- program constants
\* The window: iloc[-12:], rolling(12).
Window == 12
\* The default horizon is 13 - month.
YearEnd == 13

\* ------------------------------------------------------------ input tables
\* First month of every input history: 2000-03.
Start == 2000 * 12 + (3 - 1)

Cols == {1, 2}
NumCols == Cardinality(Cols)

None == << >>
Some(x) == << x >>
IsSet(f) == f # None
Val(f) == f[1]

\* The sequence f with its elements computed once.
ToSeq(f) == SubSeq(f, 1, Len(f))

\* Twelve-month patterns the first column is built from: a seasonal cycle, a
\* roughly opposite cycle, and a constant year (zero variance).
Shapes ==
  << <<0, 0, 1, 1, 2, 2, 2, 2, 1, 1, 0, 0>>,
     <<2, 2, 1, 1, 0, 0, 0, 1, 0, 1, 2, 2>>,
     <<1, 1, 1, 1, 1, 1, 1, 1, 1, 1, 1, 1>> >>

\* The pattern of the year `back` years before the last one, per variant:
\* 1 alternates the two cycles, 2 runs through the three patterns, 3 is
\* constant throughout.
Variants == {1, 2, 3}
ShapeOf(v, back) ==
  IF v = 1 THEN (back % 2) + 1
  ELSE IF v = 2 THEN (back % 3) + 1
  ELSE 3

\* Rows of an input history beyond its whole years.
Extras == {0, 1}

\* Gap kinds of a monthly index: 0 contiguous; 1 a whole year missing after
\* the first 12 rows; 2 one month missing inside the last 12 rows.
GapShift(g, p, K) ==
  IF g = 1 /\ p > 12 THEN 12
  ELSE IF g = 2 /\ p > K - 6 THEN 1
  ELSE 0

\* The history of 12*y + e rows of variant v; the second column is a 3-cycle
\* shifted by one every year.
MkHist(freq, y, e, v, g) ==
  LET K == 12 * y + e
      blocks == (K + 11) \div 12
      v1(p) == Shapes[ShapeOf(v, blocks - 1 - ((p - 1) \div 12))][((p - 1) % 12) + 1]
      v2(p) == ((p - 1) + ((p - 1) \div 12)) % 3
      row(p) == [key |-> Start + (p - 1) + GapShift(g, p, K),
                 val |-> <<v1(p), v2(p)>>]
  IN [freq |-> freq, rows |-> ToSeq([x \in 1..K |-> row(x)])]

\* Valid histories: contiguous months, at least 12 rows.
Contiguous ==
  {MkHist("M", t[1], t[2], t[3], 0) :
     t \in (1..MaxYears) \X Extras \X Variants}

\* Fewer than 12 rows.
Short == {MkHist("M", 0, e, 1, 0) : e \in Extras}

\* Monthly with gaps.
Gapped ==
  {MkHist("M", y, 0, 1, 1) : y \in 2..MaxYears} \cup {MkHist("M", 1, 0, 1, 2)}

\* An index that is not monthly (a DatetimeIndex without freq).
NonMonthly == {MkHist("none", 1, 1, 1, 0)}

Histories == Contiguous \cup Short \cup Gapped \cup NonMonthly

NumArgs == {None} \cup {Some(n) : n \in 0..MaxNumMeses}

\* ------------------------------------------------------------------ Period
Month(k) == (k % 12) + 1
Year(k) == k \div 12

Digit == <<"0", "1", "2", "3", "4", "5", "6", "7", "8", "9">>
\* Period.strftime('%Y-%m')
strftime(k) ==
  LET y == Year(k)
      m == Month(k)
  IN <<Digit[((y \div 1000) % 10) + 1], Digit[((y \div 100) % 10) + 1],
       Digit[((y \div 10) % 10) + 1], Digit[(y % 10) + 1], "-",
       Digit[(m \div 10) + 1], Digit[(m % 10) + 1]>>

\* ------------------------------------------------------- calc_corr_last12
RECURSIVE Sum(_, _, _)
Sum(f, lo, hi) == IF lo > hi THEN 0 ELSE f[lo] + Sum(f, lo + 1, hi)

NaN == [def |-> FALSE, cov |-> 0, vx |-> 0, vy |-> 0]

\* Pearson correlation of x and y over positions lo..hi, kept exact as the
\* scaled covariance and variances: r = cov / sqrt(vx * vy); missing when a
\* variance is zero.
Pearson(x, y, lo, hi) ==
  LET n == hi - lo + 1
      sx == Sum(x, lo, hi)
      sy == Sum(y, lo, hi)
      sxy == Sum([i \in lo..hi |-> x[i] * y[i]], lo, hi)
      sxx == Sum([i \in lo..hi |-> x[i] * x[i]], lo, hi)
      syy == Sum([i \in lo..hi |-> y[i] * y[i]], lo, hi)
      vx == n * sxx - sx * sx
      vy == n * syy - sy * sy
  IN IF vx = 0 \/ vy = 0 THEN NaN
     ELSE [def |-> TRUE, cov |-> n * sxy - sx * sy, vx |-> vx, vy |-> vy]

\* df_ref.iloc[-12:]
Trecho(rows) ==
  LET K == Len(rows)
  IN IF K <= Window THEN rows ELSE SubSeq(rows, K - Window + 1, K)

\* df_trecho[df_trecho.index.month == month]
MonthRows(rows, month) == SelectSeq(rows, LAMBDA r : Month(r.key) = month)

\* df_other: every row replaced by the trecho's first row of its month.
Other(rows) ==
  LET t == Trecho(rows)
      row(p) == [key |-> rows[p].key,
                 val |-> MonthRows(t, Month(rows[p].key))[1].val]
  IN ToSeq([x \in 1..Len(rows) |-> row(x)])

\* df_ref.rolling(12).corr(df_other) at row i, column c.
RollingCorr(rows, other, i, c) ==
  IF i < Window THEN NaN
  ELSE Pearson([p \in (i - Window + 1)..i |-> rows[p].val[c]],
               [p \in (i - Window + 1)..i |-> other[p].val[c]],
               i - Window + 1, i)

\* FilterMonth, keeping the month of the trecho's first row.
FilterMonth_first(rows) ==
  LET t == Trecho(rows)
  IN SelectSeq(ToSeq([p \in 1..Len(rows) |-> p]),
               LAMBDA p : Month(rows[p].key) = Month(t[1].key))

\* The positions kept by
\* df_corr[df_corr.index.month == df_trecho.index.month[-1]].
FilterMonth(rows) ==
  LET t == Trecho(rows)
  IN SelectSeq(ToSeq([p \in 1..Len(rows) |-> p]),
               LAMBDA p : Month(rows[p].key) = Month(t[Len(t)].key))

\* Result of calc_corr_last12: the error raised, or the correlation table.
calc_corr_last12(h) ==
  IF h.freq # "M" THEN [err |-> "FormatError", tab |-> << >>]
  ELSE IF \E m \in 1..12 : MonthRows(Trecho(h.rows), m) = << >>
  THEN [err |-> "IndexError", tab |-> << >>]
  ELSE LET other == Other(h.rows)
           idx == FilterMonth(h.rows)
           corr(i) == LET cell(c) == RollingCorr(h.rows, other, i, c)
                      IN ToSeq([x \in 1..NumCols |-> cell(x)])
           row(j) == [key |-> h.rows[idx[j]].key, corr |-> corr(idx[j])]
       IN [err |-> "none", tab |-> ToSeq([x \in 1..Len(idx) |-> row(x)])]

\* calc_corr_last12 is a pure function of its argument: its results on the
\* input histories, computed once.
Calculated == {[h |-> h, out |-> calc_corr_last12(h)] : h \in Histories}
Calc(h) == (CHOOSE e \in Calculated : e.h = h).out

\* ------------------------------------------------------- SimpleCorrelation12
VARIABLES
  coluna, posicao,             \* constructor arguments
  df_base, df_correlacao,      \* set by fit
  period_,                     \* self._period_
  correlacao_, correlacao_outros_, mes_final_periodo_,
  op, arg, ret, err,           \* the last call, its argument and its outcome
  fitted,                      \* some fit call has returned normally
  first                        \* the first predict call since the last fit
                               \* call, and whether others have followed it

fields == <<coluna, posicao, df_base, df_correlacao, period_,
            correlacao_, correlacao_outros_, mes_final_periodo_>>
vars == <<coluna, posicao, df_base, df_correlacao, period_,
          correlacao_, correlacao_outros_, mes_final_periodo_,
          op, arg, ret, err, fitted, first>>

Self ==
  [coluna |-> coluna, posicao |-> posicao, df_base |-> df_base,
   df_correlacao |-> df_correlacao, period_ |-> period_,
   correlacao_ |-> correlacao_, correlacao_outros_ |-> correlacao_outros_,
   mes_final_periodo_ |-> mes_final_periodo_]

\* __init__
Init ==
  /\ coluna \in Cols
  /\ posicao \in 0..MaxPosicao
  /\ df_base = None
  /\ df_correlacao = None
  /\ period_ = None
  /\ correlacao_ = None
  /\ correlacao_outros_ = None
  /\ mes_final_periodo_ = None
  /\ op = "init"
  /\ arg = None
  /\ ret = None
  /\ err = "none"
  /\ fitted = FALSE
  /\ first = None

\* a > b for two defined correlations.
Greater(a, b) ==
  LET qa == a.cov * a.cov * b.vx * b.vy
      qb == b.cov * b.cov * a.vx * a.vy
  IN IF a.cov >= 0 /\ b.cov < 0 THEN TRUE
     ELSE IF a.cov < 0 /\ b.cov >= 0 THEN FALSE
     ELSE IF a.cov >= 0 THEN qa > qb
     ELSE qa < qb

\* Before, sorting in ascending order.
Before_ascending(s, i, j) ==
  IF s[i].def /\ s[j].def
  THEN Greater(s[j], s[i]) \/ (~Greater(s[i], s[j]) /\ i < j)
  ELSE IF s[i].def # s[j].def THEN s[i].def
  ELSE i < j

\* Whether entry i comes before entry j in sort_values(ascending=False):
\* larger values first, equal values in their original order, missing values
\* last in their original order.
Before(s, i, j) ==
  IF s[i].def /\ s[j].def
  THEN Greater(s[i], s[j]) \/ (~Greater(s[j], s[i]) /\ i < j)
  ELSE IF s[i].def # s[j].def THEN s[i].def
  ELSE i < j

\* The positions of s in the order of sort_values(ascending=False).
SortDesc(s) ==
  LET at(r) == CHOOSE i \in 1..Len(s) :
                 Cardinality({j \in 1..Len(s) : j # i /\ Before(s, j, i)}) = r - 1
  IN ToSeq([x \in 1..Len(s) |-> at(x)])

\* self.df_correlacao[self.coluna].sort_values(ascending=False)
top_corr(tab, col) ==
  LET column(j) == tab[j].corr[col]
      s == ToSeq([x \in 1..Len(tab) |-> column(x)])
      ord == SortDesc(s)
      entry(r) == [key |-> tab[ord[r]].key, corr |-> s[ord[r]]]
  IN ToSeq([x \in 1..Len(tab) |-> entry(x)])

\* top_corr is a pure function of the table and the column: its results on the
\* correlation tables of the input histories, computed once.
Ranked ==
  {[h |-> e.h, col |-> c, top |-> top_corr(e.out.tab, c)] :
     e \in {x \in Calculated : x.out.err = "none"}, c \in Cols}
Top(h, c) == (CHOOSE e \in Ranked : e.h = h /\ e.col = c).top

\* df_correlacao.loc[key]
LocRow(tab, key) == (CHOOSE j \in 1..Len(tab) : tab[j].key = key)

\* fit: the object after the call and the error raised ("none": returns self).
fit_body(self, h) ==
  LET s1 == [self EXCEPT !.df_base = Some(h)]
      c == Calc(h)
      s2 == [s1 EXCEPT !.df_correlacao = Some(c.tab)]
      top == Top(h, self.coluna)
      pos == self.posicao + 1
      s3 == [s2 EXCEPT !.period_ = Some(top[pos].key),
                       !.correlacao_ = Some(top[pos].corr),
                       !.correlacao_outros_ =
                          Some(c.tab[LocRow(c.tab, top[pos].key)].corr),
                       !.mes_final_periodo_ = Some(strftime(top[pos].key))]
  IN IF c.err # "none" THEN [self |-> s1, err |-> c.err]
     ELSE IF pos > Len(top) THEN [self |-> s2, err |-> "IndexError"]
     ELSE [self |-> s3, err |-> "none"]

\* Horizon, counting the months after mes_escolhido_ini only.
Horizon_after(num, mes_escolhido_ini) ==
  IF IsSet(num) /\ Val(num) # 0 THEN Val(num)
  ELSE YearEnd - 1 - Month(mes_escolhido_ini)

\* The horizon: num_meses if num_meses else (13 - mes_escolhido_ini.month)
Horizon(num, mes_escolhido_ini) ==
  IF IsSet(num) /\ Val(num) # 0 THEN Val(num)
  ELSE YearEnd - Month(mes_escolhido_ini)

\* self.df_base.loc[mes_escolhido_ini:].iloc[:num_meses]
Escolhido(rows, mes_escolhido_ini, n) ==
  LET from == SelectSeq(rows, LAMBDA r : r.key >= mes_escolhido_ini)
  IN IF Len(from) <= n THEN from ELSE SubSeq(from, 1, n)

\* predict from line 161 on, self._period_ being set.
predict_fitted(self, num) ==
  LET base == Val(self.df_base)
      mes_escolhido_ini == Val(self.period_) + 1
  IN IF base.rows = << >> THEN [err |-> "IndexError", ret |-> None]
     ELSE IF base.freq # "M" THEN [err |-> "TypeError", ret |-> None]
     ELSE LET next_month == base.rows[Len(base.rows)].key + 1
              esc == Escolhido(base.rows, mes_escolhido_ini,
                               Horizon(num, mes_escolhido_ini))
              row(j) == [key |-> next_month + (j - 1), val |-> esc[j].val]
          IN [err |-> "none",
              ret |-> Some([freq |-> "M",
                            rows |-> ToSeq([x \in 1..Len(esc) |-> row(x)])])]

\* predict_body, without the try/except around self._period_ + 1.
predict_body_uncaught(self, num) ==
  IF ~IsSet(self.period_) THEN [err |-> "TypeError", ret |-> None]
  ELSE predict_fitted(self, num)

\* predict: the table returned, or the error raised.  None + 1 is a TypeError,
\* which predict turns into the not-fitted error.
predict_body(self, num) ==
  IF ~IsSet(self.period_) THEN [err |-> "NotFitted", ret |-> None]
  ELSE predict_fitted(self, num)

fit(h) ==
  \E r \in {fit_body(Self, h)} :
     /\ coluna' = r.self.coluna
     /\ posicao' = r.self.posicao
     /\ df_base' = r.self.df_base
     /\ df_correlacao' = r.self.df_correlacao
     /\ period_' = r.self.period_
     /\ correlacao_' = r.self.correlacao_
     /\ correlacao_outros_' = r.self.correlacao_outros_
     /\ mes_final_periodo_' = r.self.mes_final_periodo_
     /\ op' = "fit"
     /\ arg' = None
     /\ ret' = None
     /\ err' = r.err
     /\ fitted' = (fitted \/ r.err = "none")
     /\ first' = None

\* predict, keeping mes_escolhido_ini in self._period_.
predict_advancing(num) ==
  \E r \in {predict_body(Self, num)} :
     /\ op' = "predict"
     /\ arg' = num
     /\ ret' = r.ret
     /\ err' = r.err
     /\ first' = IF IsSet(first) THEN Some([Val(first) EXCEPT !.again = TRUE])
                 ELSE Some([arg |-> num, ret |-> r.ret, err |-> r.err,
                            again |-> FALSE])
     /\ period_' = IF IsSet(period_) THEN Some(Val(period_) + 1) ELSE period_
     /\ UNCHANGED <<coluna, posicao, df_base, df_correlacao, correlacao_,
                    correlacao_outros_, mes_final_periodo_, fitted>>

predict(num) ==
  \E r \in {predict_body(Self, num)} :
     /\ op' = "predict"
     /\ arg' = num
     /\ ret' = r.ret
     /\ err' = r.err
     /\ first' = IF IsSet(first) THEN Some([Val(first) EXCEPT !.again = TRUE])
                 ELSE Some([arg |-> num, ret |-> r.ret, err |-> r.err,
                            again |-> FALSE])
     /\ UNCHANGED <<fields, fitted>>

Next ==
  \/ \E h \in Histories : fit(h)
  \/ \E num \in NumArgs : predict(num)

Spec == Init /\ [][Next]_vars

\* ------------------------------------------------------------- properties
Min(a, b) == IF a <= b THEN a ELSE b

\* The input constraint: monthly, contiguous, at least 12 rows.
ValidMonthly(h) ==
  /\ h.freq = "M"
  /\ Len(h.rows) >= Window
  /\ \A p \in 1..(Len(h.rows) - 1) : h.rows[p + 1].key = h.rows[p].key + 1

\* Number of rows keyed after month k.
RowsAfter(rows, k) == Cardinality({p \in 1..Len(rows) : rows[p].key > k})

\* Correlation a ranks strictly above b: missing values are lowest.
StrictlyBetter(a, b) == a.def /\ (~b.def \/ Greater(a, b))

FitOk == op = "fit" /\ err = "none"
PredictOk == op = "predict" /\ err = "none"

\* C1: predict on a model on which no fit call has succeeded raises the
\* not-fitted error and returns no table, with or without num_meses, also after
\* fit calls that failed.
C1_NotFitted ==
  (op = "predict" /\ ~fitted) => (err = "NotFitted" /\ ret = None)

\* predict with num_meses after a failed fit call, no fit having succeeded.
C1_Witness ==
  op = "predict" /\ ~fitted /\ IsSet(df_base) /\ IsSet(arg) /\ err = "NotFitted"

C3_Reindex ==
  (op = "predict" /\ fitted) =>
    /\ err = "none"
    /\ LET rows == Val(df_base).rows
           out == Val(ret).rows
       IN \A j \in 1..Len(out) :
            /\ out[j].key = rows[Len(rows)].key + j
            /\ \E p \in 1..Len(rows) :
                 /\ rows[p].key = Val(period_) + j
                 /\ rows[p].val = out[j].val

\* C4: predict(num_meses) with a supplied num_meses >= 0 returns at most
\* num_meses rows, and fewer only when the stored history has fewer rows after
\* the selected period.
C4_AtMost ==
  (PredictOk /\ IsSet(arg)) =>
    LET n == Len(Val(ret).rows)
    IN /\ n <= Val(arg)
       /\ n < Val(arg) => RowsAfter(Val(df_base).rows, Val(period_)) < Val(arg)

\* C5: predict without num_meses uses the horizon 13 - month of the month after
\* the selected period: the result has that many rows, or all the rows of the
\* stored history after the selected period when they are fewer.
C5_DefaultHorizon ==
  (PredictOk /\ arg = None) =>
    Len(Val(ret).rows) =
      Min(13 - Month(Val(period_) + 1),
          RowsAfter(Val(df_base).rows, Val(period_)))

\* The month after the selected period is April and the result has 9 rows.
C5_Witness ==
  /\ PredictOk
  /\ arg = None
  /\ Val(correlacao_).def
  /\ Month(Val(period_) + 1) = 4
  /\ Len(Val(ret).rows) = 9

\* C6: fit on a history that violates the input constraint (not monthly,
\* monthly with gaps, fewer than 12 rows) fails with the format error.
C6_FormatError ==
  (op = "fit" /\ ~ValidMonthly(Val(df_base))) => err = "FormatError"

\* C7 as claimed: for a valid history of K rows the correlation table has the
\* history's columns, rows of the last row's calendar month in chronological
\* order, and floor((K-12)/12)+1 rows.
C7_Shape_claimed ==
  (op = "fit" /\ ValidMonthly(Val(df_base))) =>
    LET rows == Val(df_base).rows
        tab == Val(df_correlacao)
    IN /\ Len(tab) = ((Len(rows) - 12) \div 12) + 1
       /\ \A j \in 1..Len(tab) :
            /\ Len(tab[j].corr) = NumCols
            /\ Month(tab[j].key) = Month(rows[Len(rows)].key)
       /\ \A j \in 1..(Len(tab) - 1) : tab[j].key < tab[j + 1].key

\* C7 as amended: the same, with floor((K-1)/12)+1 rows (the rows of the last
\* row's calendar month, those with fewer than 12 preceding rows included).
C7_Shape ==
  (op = "fit" /\ ValidMonthly(Val(df_base))) =>
    LET rows == Val(df_base).rows
        tab == Val(df_correlacao)
    IN /\ Len(tab) = ((Len(rows) - 1) \div 12) + 1
       /\ \A j \in 1..Len(tab) :
            /\ Len(tab[j].corr) = NumCols
            /\ Month(tab[j].key) = Month(rows[Len(rows)].key)
       /\ \A j \in 1..(Len(tab) - 1) : tab[j].key < tab[j + 1].key

\* A valid history of 12*y + 1 rows, y >= 2, and its table of y + 1 rows.
C7_Witness ==
  /\ op = "fit"
  /\ ValidMonthly(Val(df_base))
  /\ Len(Val(df_base).rows) > 2 * Window
  /\ Len(Val(df_base).rows) % 12 = 1
  /\ Len(Val(df_correlacao)) = (Len(Val(df_base).rows) \div 12) + 1

\* C8: a predict call leaves every field of the model unchanged, and it
\* returns (or raises) what the first predict call since the last fit call
\* did when that call had the same argument, whatever predict calls came
\* between.
C8_Frame ==
  [][op' = "predict" =>
       /\ fields' = fields
       /\ (IsSet(first) /\ Val(first).arg = arg') =>
            (ret' = Val(first).ret /\ err' = Val(first).err)]_vars

\* A predict call with num_meses that returned rows, repeated after other
\* predict calls.
C8_Witness ==
  /\ PredictOk
  /\ IsSet(arg)
  /\ Val(arg) >= 1
  /\ Len(Val(ret).rows) = Val(arg)
  /\ Val(first).again
  /\ Val(first).arg = arg

\* C9: whenever a period is selected, the stored history, the correlation
\* table and the selected period come from one successful fit call: the table
\* is the stored history's and the period is the one fit selects in it.
C9_Atomic ==
  IsSet(period_) =>
    LET c == Calc(Val(df_base))
    IN /\ c.err = "none"
       /\ df_correlacao = Some(c.tab)
       /\ Len(c.tab) > posicao
       /\ period_ = Some(Top(Val(df_base), coluna)[posicao + 1].key)

\* C10: in the descending ranking missing correlations come after every
\* defined one, and after a successful fit the recorded correlation of the
\* selected period is defined.
C10_Defined ==
  FitOk =>
    /\ LET top == top_corr(Val(df_correlacao), coluna)
       IN \A i, j \in 1..Len(top) : (i < j /\ top[j].corr.def) => top[i].corr.def
    /\ Val(correlacao_).def
====
